---- MODULE Spec2Model ----
(***************************************************************************)
(* A model of scripts/sync-devto.mjs, the one-way synchronisation of the   *)
(* blog's Markdown posts to the dev.to API.                                *)
(*                                                                         *)
(* JavaScript strings are modelled as sequences of one-character strings,  *)
(* so that path handling, extension stripping and kebab-casing are         *)
(* computed character by character as the code computes them.              *)
(***************************************************************************)
EXTENDS Integers, Sequences, FiniteSets, TLC

VARIABLES
    pc,             \* position of the script's top-level flow
    run,            \* number of process runs started so far
    env,            \* process.env of the current run
    argv,           \* process.argv of the current run
    files,          \* line 85, the discovered file paths
    byCanonicalUrl, \* line 92, the lookup built from the fetched inventory
    myArticles,     \* line 91, the fetched inventory page
    i,              \* index in files of the file the loop is at
    remote,         \* the articles held by the remote platform, in listing order
    remote0,        \* the remote as it was when the current run started
    io,             \* the I/O the current run has performed, in order
    exitCode,       \* -1 while running, else the process's exit code
    error,          \* the uncaught error that ended the run, "" when none did
    origin,         \* per path: the article a past run created for it
    baseUrl,        \* utils/base.ts line 1: import.meta.env.BASE_URL
    call            \* the last call made to a function of utils/base.ts

vars == <<pc, run, env, argv, files, byCanonicalUrl,
          myArticles, i, remote, remote0, io, exitCode, error, origin,
          baseUrl, call>>

-----------------------------------------------------------------------------
(* Bounds of the model *)

MaxRuns == 2

\* the longest list of tags a front-matter holds
MaxTags == 6
\* the longest pathname handed to withBase and stripBase
MaxPathLen == 4

-----------------------------------------------------------------------------
(* Strings *)

LowerSeq ==
    <<"a","b","c","d","e","f","g","h","i","j","k","l","m",
      "n","o","p","q","r","s","t","u","v","w","x","y","z">>

UpperSeq ==
    <<"A","B","C","D","E","F","G","H","I","J","K","L","M",
      "N","O","P","Q","R","S","T","U","V","W","X","Y","Z">>

Digits == {"0","1","2","3","4","5","6","7","8","9"}

IsLower(c) == \E n \in 1..26 : LowerSeq[n] = c

IsUpper(c) == \E n \in 1..26 : UpperSeq[n] = c

IsDigit(c) == c \in Digits

IsLetter(c) == IsLower(c) \/ IsUpper(c)

toLowerCase(c) ==
    IF IsUpper(c) THEN LowerSeq[CHOOSE n \in 1..26 : UpperSeq[n] = c] ELSE c

LowerStr(s) == [n \in 1..Len(s) |-> toLowerCase(s[n])]

startsWith(s, prefix) ==
    /\ Len(prefix) <= Len(s)
    /\ SubSeq(s, 1, Len(prefix)) = prefix

EndsWithCI(s, suffix) ==
    /\ Len(suffix) <= Len(s)
    /\ LowerStr(SubSeq(s, Len(s) - Len(suffix) + 1, Len(s))) = suffix

\* s.split(sep) for a one-character separator: always at least one piece
RECURSIVE SplitFrom(_, _, _, _)
SplitFrom(s, sep, n, cur) ==
    IF n > Len(s) THEN <<cur>>
    ELSE IF s[n] = sep THEN <<cur>> \o SplitFrom(s, sep, n + 1, <<>>)
    ELSE SplitFrom(s, sep, n + 1, Append(cur, s[n]))

split(s, sep) == SplitFrom(s, sep, 1, <<>>)

\* parts.join(sep)
RECURSIVE join(_, _)
join(parts, sep) ==
    IF Len(parts) = 0 THEN <<>>
    ELSE IF Len(parts) = 1 THEN parts[1]
    ELSE parts[1] \o <<sep>> \o join(Tail(parts), sep)

Whitespace == {" ", "\n", "\t"}

\* s.trim()
RECURSIVE trim(_)
trim(s) ==
    IF Len(s) = 0 THEN s
    ELSE IF s[1] \in Whitespace THEN trim(Tail(s))
    ELSE IF s[Len(s)] \in Whitespace THEN trim(SubSeq(s, 1, Len(s) - 1))
    ELSE s

\* Boolean(s) of a string
Truthy(s) == Len(s) > 0

\* /\.(md|mdx)$/i.test(s)
IsMarkdown(s) ==
    \/ EndsWithCI(s, <<".","m","d">>)
    \/ EndsWithCI(s, <<".","m","d","x">>)

\* s.replace(/\.(md|mdx)$/i, "")
StripMarkdownExt(s) ==
    IF EndsWithCI(s, <<".","m","d">>) THEN SubSeq(s, 1, Len(s) - 3)
    ELSE IF EndsWithCI(s, <<".","m","d","x">>) THEN SubSeq(s, 1, Len(s) - 4)
    ELSE s

\* s.replace(/\/$/, "")
StripTrailingSlash(s) ==
    IF Len(s) > 0 /\ s[Len(s)] = "/" THEN SubSeq(s, 1, Len(s) - 1) ELSE s

-----------------------------------------------------------------------------
(* lodash.kebabcase: the words of the string, lower-cased, joined by "-".  *)
(* A word starts at a letter or digit that follows a separator, at an      *)
(* upper-case letter that follows a lower-case one, at the last upper-case *)
(* letter of a run that a lower-case letter follows, and where letters and *)
(* digits meet.                                                            *)

WordStart(s, n) ==
    LET c == s[n] IN
    \/ /\ IsLetter(c)
       /\ \/ n = 1
          \/ ~IsLetter(s[n - 1])
          \/ IsLower(s[n - 1]) /\ IsUpper(c)
          \/ /\ IsUpper(s[n - 1]) /\ IsUpper(c)
             /\ n < Len(s) /\ IsLower(s[n + 1])
    \/ /\ IsDigit(c)
       /\ (n = 1 \/ ~IsDigit(s[n - 1]))

RECURSIVE WordsFrom(_, _, _, _)
WordsFrom(s, n, cur, acc) ==
    LET flush == IF Len(cur) > 0 THEN Append(acc, cur) ELSE acc IN
    IF n > Len(s) THEN flush
    ELSE IF ~(IsLetter(s[n]) \/ IsDigit(s[n])) THEN WordsFrom(s, n + 1, <<>>, flush)
    ELSE IF WordStart(s, n) THEN WordsFrom(s, n + 1, <<s[n]>>, flush)
    ELSE WordsFrom(s, n + 1, Append(cur, s[n]), acc)

words(s) == WordsFrom(s, 1, <<>>, <<>>)

kebabcase(s) ==
    LET w == words(s) IN join([n \in 1..Len(w) |-> LowerStr(w[n])], "-")

-----------------------------------------------------------------------------
(* node:path, POSIX *)

\* the segments of a path with ".", ".." and empty segments resolved
RECURSIVE NormalizeSegs(_, _)
NormalizeSegs(segs, acc) ==
    IF Len(segs) = 0 THEN acc
    ELSE IF segs[1] = <<>> \/ segs[1] = <<".">> THEN NormalizeSegs(Tail(segs), acc)
    ELSE IF segs[1] = <<".", ".">>
        THEN NormalizeSegs(Tail(segs),
                           IF Len(acc) > 0 THEN SubSeq(acc, 1, Len(acc) - 1) ELSE acc)
    ELSE NormalizeSegs(Tail(segs), Append(acc, segs[1]))

AbsSegs(p) == NormalizeSegs(split(p, "/"), <<>>)

isAbsolute(p) == Len(p) > 0 /\ p[1] = "/"

\* path.join(a, b) of an absolute a
pathJoin(a, b) == <<"/">> \o join(AbsSegs(a \o <<"/">> \o b), "/")

RECURSIVE CommonLen(_, _)
CommonLen(a, b) ==
    IF Len(a) = 0 \/ Len(b) = 0 \/ a[1] # b[1] THEN 0
    ELSE 1 + CommonLen(Tail(a), Tail(b))

\* path.relative(from, to) of two absolute paths
relative(from, to) ==
    LET f == AbsSegs(from)
        t == AbsSegs(to)
        c == CommonLen(f, t)
        ups == [n \in 1..(Len(f) - c) |-> <<".", ".">>]
    IN join(ups \o SubSeq(t, c + 1, Len(t)), "/")

-----------------------------------------------------------------------------
(* The process environment and the file system the model draws from *)

Some(v) == [set |-> TRUE, v |-> v]

Undefined == [set |-> FALSE, v |-> <<>>]

\* opt || dflt, of an environment variable
OrElse(opt, dflt) == IF opt.set /\ Truthy(opt.v) THEN opt.v ELSE dflt

cwd == <<"/","w">>

EnvPostsDir == Some(<<"p">>)

Envs ==
    { [DEVTO_API_KEY |-> Some(<<"k">>), SITE_URL |-> Some(<<"s">>)],
      [DEVTO_API_KEY |-> Some(<<"k">>), SITE_URL |-> Some(<<"s","/">>)],
      [DEVTO_API_KEY |-> Undefined,     SITE_URL |-> Some(<<"s">>)],
      [DEVTO_API_KEY |-> Some(<<>>),    SITE_URL |-> Some(<<"s">>)],
      [DEVTO_API_KEY |-> Some(<<"k">>), SITE_URL |-> Undefined],
      [DEVTO_API_KEY |-> Some(<<"k">>), SITE_URL |-> Some(<<"/">>)] }

FilesFlag == <<"-","-","f","i","l","e","s">>

ListFileName == <<"l">>

Argvs ==
    { <<<<"n">>, <<"s">>>>,
      <<<<"n">>, <<"s">>, FilesFlag, ListFileName>>,
      <<<<"n">>, <<"s">>, FilesFlag>> }

\* "/w/p/a b.md", "/w/p/A-b.md", "/w/p/_d/c.mdx", "/w/x.MD", "/w/p/n.txt"
PathAB == <<"/","w","/","p","/","a"," ","b",".","m","d">>

PathAb == <<"/","w","/","p","/","A","-","b",".","m","d">>

PathC == <<"/","w","/","p","/","_","d","/","c",".","m","d","x">>

PathX == <<"/","w","/","x",".","M","D">>

PathN == <<"/","w","/","p","/","n",".","t","x","t">>

\* the files a disk may hold, in the order readdir lists them
DiskUniverse == <<PathAB, PathAb, PathC, PathX, PathN>>

\* the states of the disk a run may find
Disks ==
    { {PathN},
      {PathAB, PathAb, PathN},
      {PathC, PathX} }

\* the texts the --files list may hold:
\* "p/a b.md\n\n  p/A-b.md \np/n.txt\n"
TextPosts ==
    <<"p","/","a"," ","b",".","m","d","\n","\n"," "," ","p","/","A","-","b",
      ".","m","d"," ","\n","p","/","n",".","t","x","t","\n">>

\* "/w/x.MD\np/_d/c.mdx"
TextOutside ==
    <<"/","w","/","x",".","M","D","\n","p","/","_","d","/","c",".","m","d","x">>

\* "p/n.txt\n"
TextNoMarkdown == <<"p","/","n",".","t","x","t","\n">>

ListTexts == {TextPosts, TextOutside, TextNoMarkdown}

\* front-matter values: a boolean, or a key the front-matter does not have
Bool(b) == [t |-> "boolean", v |-> b]

NoValue == [t |-> "undefined", v |-> FALSE]

\* front-matter tags: a list of strings, one string, or no tags key
TagList(l) == [t |-> "array", v |-> l]

TagString(str) == [t |-> "string", v |-> <<str>>]

NoTags == [t |-> "undefined", v |-> <<>>]

\* the tags "a" .. "f"
SixTags == <<<<"a">>, <<"b">>, <<"c">>, <<"d">>, <<"e">>, <<"f">>>>

\* the parsed contents a Markdown file may hold: matter(raw) of line 100
Contents ==
    { [data |-> [title |-> "T", description |-> "", draft |-> Bool(FALSE),
                 tags |-> TagList(SubSeq(SixTags, 1, 5))],
       content |-> <<" ","x">>],
      [data |-> [title |-> "T", description |-> "d", draft |-> Bool(TRUE),
                 tags |-> TagString(<<"s","o","l","o">>)],
       content |-> <<"y","\n">>] }

\* the list of the first n of the tags "a", "b", "c", ...
TagsUpTo(n) == [j \in 1..n |-> <<LowerSeq[j]>>]

\* every front-matter of the draft values and tag shapes the script tells apart
WideContents ==
    { [data |-> [title |-> "T", description |-> "", draft |-> d, tags |-> t],
       content |-> <<"x">>] :
        d \in {NoValue, Bool(TRUE), Bool(FALSE)},
        t \in {NoTags, TagString(<<"s","o","l","o">>)}
                 \cup {TagList(TagsUpTo(n)) : n \in 0..MaxTags} }

\* what an event that read no content file carries as its content
NoRaw ==
    [data |-> [title |-> "", description |-> "", draft |-> NoValue, tags |-> NoTags],
     content |-> <<>>]

-----------------------------------------------------------------------------
(* Module-level constants of the script, lines 6-12 *)

\* line 8
devtoApiKey == env.DEVTO_API_KEY

\* line 9
siteUrl == StripTrailingSlash(OrElse(env.SITE_URL, <<>>))

\* line 11
postsDir == OrElse(EnvPostsDir, <<"s","r","c","/","d","a","t","a","/","b","l","o","g">>)

\* line 12: path.resolve(postsDir)
postsDirAbs == IF isAbsolute(postsDir) THEN pathJoin(postsDir, <<>>) ELSE pathJoin(cwd, postsDir)

\* lines 21-24
getArgValue(args, flag) ==
    IF \E n \in 1..Len(args) : args[n] = flag
    THEN LET index == CHOOSE n \in 1..Len(args) :
                          args[n] = flag /\ \A m \in 1..(n - 1) : args[m] # flag
         IN IF index + 1 <= Len(args) THEN Some(args[index + 1]) ELSE Undefined
    ELSE Undefined

\* canonicalUrlForFile without line 47: the marked segments are kept
canonicalUrlKeepsMarked(filePath) ==
    LET rel == join(split(relative(postsDirAbs, filePath), "/"), "/")
        withoutExt == StripMarkdownExt(rel)
        kept == SelectSeq(split(withoutExt, "/"), Truthy)
        segments == [n \in 1..Len(kept) |-> kebabcase(kept[n])]
    IN siteUrl \o <<"/","p","o","s","t","s","/">> \o join(segments, "/")

\* lines 38-51
canonicalUrlForFile(filePath) ==
    LET rel == join(split(relative(postsDirAbs, filePath), "/"), "/")
        withoutExt == StripMarkdownExt(rel)
        NotMarked(s) == ~startsWith(s, <<"_">>)
        kept == SelectSeq(SelectSeq(split(withoutExt, "/"), Truthy), NotMarked)
        segments == [n \in 1..Len(kept) |-> kebabcase(kept[n])]
    IN siteUrl \o <<"/","p","o","s","t","s","/">> \o join(segments, "/")

-----------------------------------------------------------------------------
(* I/O events: what the run did to the file system, the network and the    *)
(* console, in the order it did it.  k is the index in files of the file   *)
(* the event belongs to, 0 when it belongs to none.                        *)

NoPayload ==
    [title |-> "", body_markdown |-> <<>>, tags |-> <<>>, description |-> "",
     canonical_url |-> <<>>, published |-> FALSE]

\* text is the list text and raw the file content that a read returned
Ev(kind, k, method, id, arg, payload, ok) ==
    [kind |-> kind, k |-> k, method |-> method, id |-> id, arg |-> arg,
     payload |-> payload, ok |-> ok, text |-> <<>>, raw |-> NoRaw]

ReadListEv(p, text) ==
    [Ev("readList", 0, "", 0, p, NoPayload, TRUE) EXCEPT !.text = text]

ReaddirEv(dir) == Ev("readdir", 0, "", 0, dir, NoPayload, TRUE)

ReadFileEv(k, p, raw) ==
    [Ev("readFile", k, "", 0, p, NoPayload, TRUE) EXCEPT !.raw = raw]

RequestEv(k, method, id, p, payload) == Ev("request", k, method, id, p, payload, TRUE)

ResponseEv(k, method, ok) == Ev("response", k, method, 0, <<>>, NoPayload, ok)

LogEv(k, what, url) == Ev("log", k, what, 0, url, NoPayload, TRUE)

-----------------------------------------------------------------------------
(* Discovery, lines 53-80 *)

Under(dir, p) ==
    LET d == AbsSegs(dir)
        t == AbsSegs(p)
    IN Len(t) > Len(d) /\ SubSeq(t, 1, Len(d)) = d

EntryName(dir, p) == AbsSegs(p)[Len(AbsSegs(dir)) + 1]

\* fs.readdir(dir, {withFileTypes: true}): the names of the entries of dir
RECURSIVE ReaddirFrom(_, _, _, _)
ReaddirFrom(dir, disk, n, acc) ==
    IF n > Len(DiskUniverse) THEN acc
    ELSE LET p == DiskUniverse[n]
             fresh == /\ p \in disk
                      /\ Under(dir, p)
                      /\ \A m \in 1..Len(acc) : acc[m] # EntryName(dir, p)
         IN ReaddirFrom(dir, disk, n + 1,
                        IF fresh THEN Append(acc, EntryName(dir, p)) ELSE acc)

readdir(dir, disk) == ReaddirFrom(dir, disk, 1, <<>>)

isDirectory(fullPath, disk) == \E p \in disk : Under(fullPath, p)

isFile(fullPath, disk) == \E p \in disk : AbsSegs(p) = AbsSegs(fullPath)

\* lines 53-65; the result holds the files found and the directories read
RECURSIVE listFilesRecursive(_, _)
RECURSIVE ListEntries(_, _, _, _)
ListEntries(dir, disk, entries, acc) ==
    IF Len(entries) = 0 THEN acc
    ELSE LET fullPath == pathJoin(dir, entries[1])
             sub == listFilesRecursive(fullPath, disk)
             next ==
                 IF isDirectory(fullPath, disk)
                 THEN [files |-> acc.files \o sub.files, io |-> acc.io \o sub.io]
                 ELSE IF isFile(fullPath, disk) /\ IsMarkdown(entries[1])
                 THEN [files |-> Append(acc.files, fullPath), io |-> acc.io]
                 ELSE acc
         IN ListEntries(dir, disk, Tail(entries), next)

listFilesRecursive(dir, disk) ==
    ListEntries(dir, disk, readdir(dir, disk),
                [files |-> <<>>, io |-> <<ReaddirEv(dir)>>])

\* loadFiles without lines 68-77: the content root is scanned whatever is listed
loadFilesAlwaysScan(args, disk, text) == listFilesRecursive(postsDirAbs, disk)

\* lines 67-80; text is what the list file holds
loadFiles(args, disk, text) ==
    LET listFile == getArgValue(args, FilesFlag) IN
    IF listFile.set /\ Truthy(listFile.v)
    THEN LET lines == split(text, "\n")
             trimmed == [n \in 1..Len(lines) |-> trim(lines[n])]
             listed == SelectSeq(SelectSeq(trimmed, Truthy), IsMarkdown)
         IN [files |-> [n \in 1..Len(listed) |->
                           IF isAbsolute(listed[n]) THEN listed[n]
                           ELSE pathJoin(cwd, listed[n])],
             io |-> <<ReadListEv(listFile.v, text)>>]
    ELSE listFilesRecursive(postsDirAbs, disk)

-----------------------------------------------------------------------------
(* The remote platform: a sequence of articles in listing order.  It is    *)
(* not part of the script; POST adds an article under a fresh id, PUT      *)
(* overwrites the article of the addressed id, GET lists the first page.   *)

Str(v) == [t |-> "string", v |-> v]

Null == [t |-> "null", v |-> <<>>]

per_page == 1000

Min(a, b) == IF a < b THEN a ELSE b

Article(id, canonical_url, payload) ==
    [id |-> id, canonical_url |-> canonical_url, title |-> payload.title,
     body_markdown |-> payload.body_markdown, tags |-> payload.tags,
     description |-> payload.description, published |-> payload.published]

\* GET /articles/me/all?per_page=1000&page=1
RemoteList(r) == SubSeq(r, 1, Min(per_page, Len(r)))

\* POST /articles
RemoteCreate(r, payload) ==
    Append(r, Article(Len(r) + 1, Str(payload.canonical_url), payload))

\* PUT /articles/{id}
RemoteUpdate(r, id, payload) ==
    [n \in 1..Len(r) |->
        IF r[n].id = id THEN Article(id, Str(payload.canonical_url), payload)
        ELSE r[n]]

\* the canonical_url values the articles of the initial remote carry:
\* "s/posts/a-b", "s/posts/c", "s/posts/gone" (of a local file since removed)
UrlAB == Str(<<"s","/","p","o","s","t","s","/","a","-","b">>)

UrlC == Str(<<"s","/","p","o","s","t","s","/","c">>)

UrlGone == Str(<<"s","/","p","o","s","t","s","/","g","o","n","e">>)

OldPayload ==
    [title |-> "old", body_markdown |-> <<"o">>, tags |-> <<>>, description |-> "",
     canonical_url |-> <<>>, published |-> TRUE]

\* an inventory whose n-th article has id n and the n-th of the given URLs
Inventory(urls) == [n \in 1..Len(urls) |-> Article(n, urls[n], OldPayload)]

\* the inventories the remote may start with
InitRemotes ==
    { Inventory(<<>>),
      Inventory(<<UrlGone, Null>>),
      Inventory(<<Str(<<>>), UrlC>>),
      Inventory(<<UrlAB, UrlGone, UrlAB>>) }

\* the non-empty canonical URLs of the articles of r
UrlsOf(r) ==
    { r[n].canonical_url.v : n \in { m \in 1..Len(r) :
          r[m].canonical_url.t = "string" /\ Truthy(r[m].canonical_url.v) } }

NoDuplicateUrl(r) ==
    \A m, n \in 1..Len(r) :
        ( /\ m # n
          /\ r[m].canonical_url.t = "string"
          /\ Truthy(r[m].canonical_url.v) )
        => r[m].canonical_url # r[n].canonical_url

-----------------------------------------------------------------------------
(* The reconciliation, lines 82-139 *)

\* ConfigError without line 83: the site URL is not checked
ConfigErrorKeyOnly(key, site) ==
    IF ~(key.set /\ Truthy(key.v)) THEN "DEVTO_API_KEY is missing" ELSE ""

\* lines 82-83: the error thrown, "" when none is
ConfigError(key, site) ==
    IF ~(key.set /\ Truthy(key.v)) THEN "DEVTO_API_KEY is missing"
    ELSE IF ~Truthy(site) THEN "SITE_URL is missing"
    ELSE ""

\* NoFiles without the check of line 86
NoFilesNever(fs) == FALSE

\* line 86
NoFiles(fs) == Len(fs) = 0

\* Throws without the check of line 31: the response's status is ignored
NeverThrows(ok) == FALSE

\* lines 31-34: devFetchJson throws on a response that is not ok
Throws(ok) == ~ok

\* new Map(entries): a later entry of a key replaces the earlier one
RECURSIVE MapOf(_, _)
MapOf(entries, m) ==
    IF Len(entries) = 0 THEN m
    ELSE MapOf(Tail(entries),
               [x \in DOMAIN m \cup {entries[1][1]} |->
                   IF x = entries[1][1] THEN entries[1][2] ELSE m[x]])

EmptyMap == [x \in {} |-> 0]

\* BuildLookup keeping the first article of a canonical URL, not the last
BuildLookupFirstWins(articles) ==
    LET HasUrl(a) == a.canonical_url.t = "string" /\ Len(a.canonical_url.v) > 0
        kept == SelectSeq(articles, HasUrl)
        rev == [n \in 1..Len(kept) |-> kept[Len(kept) + 1 - n]]
    IN MapOf([n \in 1..Len(rev) |-> <<rev[n].canonical_url.v, rev[n]>>], EmptyMap)

\* lines 92-96
BuildLookup(articles) ==
    LET HasUrl(a) == a.canonical_url.t = "string" /\ Len(a.canonical_url.v) > 0
        kept == SelectSeq(articles, HasUrl)
    IN MapOf([n \in 1..Len(kept) |-> <<kept[n].canonical_url.v, kept[n]>>], EmptyMap)

\* the truthiness of a front-matter value, as the conditional of line 104 takes it
ToBoolean(x) == x.t = "boolean" /\ x.v

\* seq.slice(from, to) with 0 <= from <= to
slice(seq, from, to) == SubSeq(seq, from + 1, Min(to, Len(seq)))

\* BuildPayload with line 104 turned round: a draft is sent as published
BuildPayloadDraftPublished(raw, filePath) ==
    LET data == raw.data IN
    [title |-> data.title,
     body_markdown |-> trim(raw.content),
     tags |-> IF data.tags.t \in {"array", "string"}
              THEN slice(data.tags.v, 0, 4) ELSE <<>>,
     description |-> data.description,
     canonical_url |-> canonicalUrlForFile(filePath),
     published |-> IF ToBoolean(data.draft) THEN TRUE ELSE FALSE]

\* BuildPayload without the slice of lines 108 and 110
BuildPayloadAllTags(raw, filePath) ==
    LET data == raw.data IN
    [title |-> data.title,
     body_markdown |-> trim(raw.content),
     tags |-> IF data.tags.t \in {"array", "string"} THEN data.tags.v ELSE <<>>,
     description |-> data.description,
     canonical_url |-> canonicalUrlForFile(filePath),
     published |-> IF ToBoolean(data.draft) THEN FALSE ELSE TRUE]

\* lines 102-122; tags of a single string are held as the list [data.tags]
BuildPayload(raw, filePath) ==
    LET data == raw.data IN
    [title |-> data.title,
     body_markdown |-> trim(raw.content),
     tags |-> IF data.tags.t = "array"
              THEN slice(data.tags.v, 0, 4)
              ELSE IF data.tags.t = "string"
              THEN slice(data.tags.v, 0, 4)
              ELSE <<>>,
     description |-> data.description,
     canonical_url |-> canonicalUrlForFile(filePath),
     published |-> IF ToBoolean(data.draft) THEN FALSE ELSE TRUE]

\* PublishRequest without the lookup of line 124: every file is created
PublishRequestAlwaysCreate(k, filePath, payload) ==
    RequestEv(k, "POST", 0, filePath, payload)

\* PublishRequest addressing the update to the first fetched article
PublishRequestFirstArticle(k, filePath, payload) ==
    IF payload.canonical_url \notin DOMAIN byCanonicalUrl
    THEN RequestEv(k, "POST", 0, filePath, payload)
    ELSE RequestEv(k, "PUT", myArticles[1].id, filePath, payload)

\* lines 124-137: the call made for the k-th file
PublishRequest(k, filePath, payload) ==
    IF payload.canonical_url \notin DOMAIN byCanonicalUrl
    THEN RequestEv(k, "POST", 0, filePath, payload)
    ELSE RequestEv(k, "PUT", byCanonicalUrl[payload.canonical_url].id, filePath, payload)

\* lines 130, 138: the outcome logged after the call of the k-th file
OutcomeLog(req) ==
    LogEv(req.k, IF req.method = "POST" THEN "Created" ELSE "Updated",
          req.payload.canonical_url)

-----------------------------------------------------------------------------
(* Bookkeeping of the articles the runs created: origin[p] is the id of    *)
(* the article that a run created for path p when p's canonical URL was    *)
(* not on the remote at the start of that run, and the number of that run; *)
(* it is forgotten when a run does not complete or does not include p.     *)

MdPaths == {PathAB, PathAb, PathC, PathX}

NoOrigin == [p \in MdPaths |-> [id |-> 0, run |-> 0]]

InFiles(p) == \E n \in 1..Len(files) : files[n] = p

OriginAfter(req, done) ==
    LET created ==
            IF /\ req.method = "POST"
               /\ origin[req.arg].id = 0
               /\ req.payload.canonical_url \notin UrlsOf(remote0)
            THEN [origin EXCEPT ![req.arg] = [id |-> Len(remote) + 1, run |-> run]]
            ELSE origin
    IN IF done
       THEN [p \in MdPaths |-> IF InFiles(p) THEN created[p] ELSE NoOrigin[p]]
       ELSE created

-----------------------------------------------------------------------------
(* The script's flow, one action per stretch between two awaits *)

\* no function of utils/base.ts has been called
(* src/utils/base.ts *)

\* the values import.meta.env.BASE_URL takes: "/", "/b/", "/b", "/bg/"
BaseUrls == {<<"/">>, <<"/", "b", "/">>, <<"/", "b">>, <<"/", "b", "g", "/">>}

PathAlphabet == {"/", "b", "g"}

Pathnames == UNION {[1..n -> PathAlphabet] : n \in 0..MaxPathLen}

\* line 4: `/blog/` -> `/blog`, `/` -> ``
basePath == IF baseUrl = <<"/">> THEN <<>> ELSE StripTrailingSlash(baseUrl)

\* lines 6-17
withBase(path) ==
    IF ~Truthy(basePath)
    THEN IF startsWith(path, <<"/">>) THEN path ELSE <<"/">> \o path
    ELSE IF path = basePath \/ startsWith(path, basePath \o <<"/">>)
         THEN path
         ELSE LET normalized == IF startsWith(path, <<"/">>) THEN path ELSE <<"/">> \o path
              IN basePath \o normalized

\* lines 19-22; slice(n) keeps the characters from index n on
stripBase(pathname) ==
    IF ~Truthy(basePath)
    THEN pathname
    ELSE IF startsWith(pathname, basePath)
         THEN SubSeq(pathname, Len(basePath) + 1, Len(pathname))
         ELSE pathname

NoCall == [fn |-> "", arg |-> <<>>, out |-> <<>>]

Stopped == pc \in {"idle", "done", "failed", "exited"}

InitSync ==
    /\ pc = "idle"
    /\ run = 0
    /\ env = [DEVTO_API_KEY |-> Undefined, SITE_URL |-> Undefined]
    /\ argv = <<>>
    /\ files = <<>>
    /\ byCanonicalUrl = EmptyMap
    /\ myArticles = <<>>
    /\ i = 0
    /\ remote \in InitRemotes
    /\ remote0 = remote
    /\ io = <<>>
    /\ exitCode = -1
    /\ error = ""
    /\ origin = NoOrigin
    /\ call = NoCall

Init == InitSync /\ baseUrl = <<"/">>

\* a process is started: lines 8-12 and the checks of lines 82-83
Start(e, args) ==
    /\ Stopped
    /\ run < MaxRuns
    /\ run' = run + 1
    /\ env' = e
    /\ argv' = args
    /\ files' = <<>>
    /\ byCanonicalUrl' = EmptyMap
    /\ myArticles' = <<>>
    /\ i' = 0
    /\ remote0' = remote
    /\ io' = <<>>
    /\ error' = ConfigError(devtoApiKey', siteUrl')
    /\ pc' = IF error' = "" THEN "load" ELSE "failed"
    /\ exitCode' = IF error' = "" THEN -1 ELSE 1
    /\ origin' = IF error' = "" THEN origin ELSE NoOrigin
    /\ UNCHANGED <<remote, baseUrl, call>>

\* lines 85-89: discovery and the empty check
LoadFiles(disk, text) ==
    /\ pc = "load"
    /\ LET found == loadFiles(argv, disk, text) IN
       /\ files' = found.files
       /\ IF NoFiles(found.files)
          THEN /\ io' = io \o found.io
                          \o <<LogEv(0, "No markdown files to sync.", <<>>)>>
               /\ pc' = "exited"
               /\ exitCode' = 0
               /\ origin' = NoOrigin
          ELSE /\ io' = io \o found.io
               /\ pc' = "fetch"
               /\ UNCHANGED <<exitCode, origin>>
    /\ UNCHANGED <<run, env, argv, byCanonicalUrl, myArticles,
                   i, remote, remote0, error, baseUrl, call>>

\* line 91: the inventory request is sent
FetchRequest ==
    /\ pc = "fetch"
    /\ io' = Append(io, RequestEv(0, "GET", 0, <<>>, NoPayload))
    /\ pc' = "fetching"
    /\ UNCHANGED <<run, env, argv, files, byCanonicalUrl, myArticles,
                   i, remote, remote0, exitCode, error, origin, baseUrl, call>>

\* lines 91-96: the inventory response arrives and the lookup is built
FetchResponse(ok) ==
    /\ pc = "fetching"
    /\ io' = Append(io, ResponseEv(0, "GET", ok))
    /\ IF Throws(ok)
       THEN /\ pc' = "failed"
            /\ exitCode' = 1
            /\ error' = "http"
            /\ origin' = NoOrigin
            /\ UNCHANGED <<myArticles, byCanonicalUrl, i>>
       ELSE /\ myArticles' = (IF ok THEN RemoteList(remote) ELSE <<>>)
            /\ byCanonicalUrl' = BuildLookup(myArticles')
            /\ i' = 1
            /\ pc' = IF 1 <= Len(files) THEN "loop" ELSE "done"
            /\ exitCode' = IF 1 <= Len(files) THEN -1 ELSE 0
            /\ UNCHANGED <<error, origin>>
    /\ UNCHANGED <<run, env, argv, files, remote, remote0, baseUrl, call>>

\* FileRequest without the await of lines 126 and 134: the loop goes on to
\* the next file while the call is unanswered
FileRequestNoAwait(raw) ==
    /\ pc = "loop"
    /\ LET filePath == files[i]
           payload == BuildPayload(raw, filePath)
       IN io' = io \o <<ReadFileEv(i, filePath, raw), PublishRequest(i, filePath, payload)>>
    /\ i' = i + 1
    /\ pc' = IF i + 1 > Len(files) THEN "done" ELSE "loop"
    /\ exitCode' = IF i + 1 > Len(files) THEN 0 ELSE -1
    /\ UNCHANGED <<run, env, argv, files, byCanonicalUrl,
                   myArticles, remote, remote0, error, origin, baseUrl, call>>

\* lines 98-137: the i-th file is read, its payload built, its call sent
FileRequest(raw) ==
    /\ pc = "loop"
    /\ LET filePath == files[i]
           payload == BuildPayload(raw, filePath)
       IN io' = io \o <<ReadFileEv(i, filePath, raw), PublishRequest(i, filePath, payload)>>
    /\ pc' = "awaiting"
    /\ UNCHANGED <<run, env, argv, files, byCanonicalUrl, myArticles,
                   i, remote, remote0, exitCode, error, origin, baseUrl, call>>

\* lines 126-139: the response of the i-th file's call arrives
FileResponse(ok) ==
    /\ pc = "awaiting"
    /\ LET req == io[Len(io)]
           done == i + 1 > Len(files)
       IN /\ remote' = IF ~ok THEN remote
                       ELSE IF req.method = "POST" THEN RemoteCreate(remote, req.payload)
                       ELSE RemoteUpdate(remote, req.id, req.payload)
          /\ IF Throws(ok)
             THEN /\ io' = Append(io, ResponseEv(i, req.method, ok))
                  /\ pc' = "failed"
                  /\ exitCode' = 1
                  /\ error' = "http"
                  /\ origin' = NoOrigin
                  /\ UNCHANGED i
             ELSE /\ io' = io \o <<ResponseEv(i, req.method, ok), OutcomeLog(req)>>
                  /\ i' = i + 1
                  /\ pc' = IF done THEN "done" ELSE "loop"
                  /\ exitCode' = IF done THEN 0 ELSE -1
                  /\ origin' = IF ok THEN OriginAfter(req, done) ELSE NoOrigin
                  /\ UNCHANGED error
    /\ UNCHANGED <<run, env, argv, files, byCanonicalUrl,
                   myArticles, remote0, baseUrl, call>>

Next ==
    \/ \E e \in Envs, args \in Argvs : Start(e, args)
    \/ \E disk \in Disks, text \in ListTexts : LoadFiles(disk, text)
    \/ FetchRequest
    \/ \E ok \in BOOLEAN : FetchResponse(ok)
    \/ \E raw \in Contents : FileRequest(raw)
    \/ \E ok \in BOOLEAN : FileResponse(ok)

Spec == Init /\ [][Next]_vars

\* one run, of a valid configuration, over files of every content of
\* WideContents, against a remote that holds the article of one of the files
InitPayload == Init /\ remote = Inventory(<<Str(<<>>), UrlC>>)

NextPayload ==
    \/ \E args \in Argvs :
          run = 0 /\ Start([DEVTO_API_KEY |-> Some(<<"k">>), SITE_URL |-> Some(<<"s">>)], args)
    \/ \E disk \in Disks, text \in ListTexts : LoadFiles(disk, text)
    \/ FetchRequest
    \/ \E ok \in BOOLEAN : FetchResponse(ok)
    \/ \E raw \in WideContents : FileRequest(raw)
    \/ \E ok \in BOOLEAN : FileResponse(ok)

SpecPayload == InitPayload /\ [][NextPayload]_vars

\* the runs against a remote that starts with no two articles of one canonical URL
InitUnique == Init /\ NoDuplicateUrl(remote)

SpecUnique == InitUnique /\ [][Next]_vars

\* the base-path helper: a page calls withBase and stripBase on pathnames,
\* under any BASE_URL, while no sync run is under way
syncVars == <<pc, run, env, argv, files, byCanonicalUrl,
              myArticles, i, remote, remote0, io, exitCode, error, origin>>

CallWithBase(path) ==
    /\ call' = [fn |-> "withBase", arg |-> path, out |-> withBase(path)]
    /\ UNCHANGED <<syncVars, baseUrl>>

CallStripBase(pathname) ==
    /\ call' = [fn |-> "stripBase", arg |-> pathname, out |-> stripBase(pathname)]
    /\ UNCHANGED <<syncVars, baseUrl>>

InitBase ==
    /\ InitSync
    /\ remote = Inventory(<<Str(<<>>), UrlC>>)
    /\ baseUrl \in BaseUrls

NextBase ==
    \/ \E path \in Pathnames : CallWithBase(path)
    \/ \E pathname \in Pathnames : CallStripBase(pathname)

SpecBase == InitBase /\ [][NextBase]_vars

-----------------------------------------------------------------------------
(* What the claims speak of *)

IsHttp(n) == io[n].kind = "request"

IsPublish(n) == io[n].kind = "request" /\ io[n].method # "GET"

Publishes == {n \in 1..Len(io) : IsPublish(n)}

RequestsOf(k) == {n \in Publishes : io[n].k = k}

\* the k-th file has been processed: it was read
Processed(k) == \E n \in 1..Len(io) : io[n].kind = "readFile" /\ io[n].k = k

FailedResponse(n) == io[n].kind = "response" /\ ~io[n].ok

ConfigMissing ==
    \/ ~devtoApiKey.set
    \/ devtoApiKey.v = <<>>
    \/ ~env.SITE_URL.set
    \/ env.SITE_URL.v \in {<<>>, <<"/">>}

-----------------------------------------------------------------------------
(* C1..C10 *)

\* C1: every processed file gets exactly one call: a PUT addressed to the id of
\* the lookup's article of the file's canonical URL when the lookup has one,
\* a POST when it has none.
C1_CreateOrUpdate ==
    \A k \in 1..Len(files) :
        Processed(k) =>
            LET url == canonicalUrlForFile(files[k])
                hits == {u \in DOMAIN byCanonicalUrl :
                            byCanonicalUrl[u].canonical_url = Str(url)}
            IN /\ Cardinality(RequestsOf(k)) = 1
               /\ \A n \in RequestsOf(k) :
                    IF hits # {}
                    THEN /\ io[n].method = "PUT"
                         /\ \E u \in hits : io[n].id = byCanonicalUrl[u].id
                    ELSE io[n].method = "POST"

\* a completed run that updated one file and created another
C1_Witness ==
    /\ pc = "done"
    /\ \E m, n \in Publishes :
          /\ io[m].method = "PUT" /\ io[m].id > 0
          /\ io[n].method = "POST"

\* C2: a response that is not a success is the last thing the run does: the
\* run has failed with that error, nothing was sent or logged after it, no
\* outcome was logged for its file, and a failed inventory fetch leaves the
\* run without any create or update call.
C2_FailFast ==
    \A n \in 1..Len(io) :
        FailedResponse(n) =>
            /\ n = Len(io)
            /\ pc = "failed" /\ error = "http" /\ exitCode = 1
            /\ io[n].k = 0 => Publishes = {}
            /\ io[n].k > 0 =>
                  /\ Cardinality(RequestsOf(io[n].k)) = 1
                  /\ \A m \in 1..Len(io) :
                        ( io[m].kind \in {"request", "log", "readFile"}
                          /\ io[m].k >= io[n].k )
                        => (io[m].k = io[n].k /\ io[m].kind # "log" /\ m < n)

\* the call of the second file failed after the first file was published
C2_Witness ==
    /\ pc = "failed"
    /\ Len(io) > 0
    /\ FailedResponse(Len(io))
    /\ io[Len(io)].k = 2
    /\ \E m \in 1..Len(io) : io[m].kind = "log" /\ io[m].k = 1

\* C3: once a run has created the article of a file whose canonical URL was
\* not on the remote, every later run that includes the file updates that
\* very article and never creates another.
C3_CreatedOnceThenUpdated ==
    \A n \in Publishes :
        LET o == origin[io[n].arg] IN
        (o.id # 0 /\ o.run < run) => (io[n].method = "PUT" /\ io[n].id = o.id)

\* C4: a remote that starts with at most one article per canonical URL keeps
\* at most one article per canonical URL.
C4_OneArticlePerUrl == NoDuplicateUrl(remote)

\* C5: the k-th create/update call is the call of the k-th file; it is sent
\* after the inventory response arrived and after the call of file k-1 has
\* been answered and its outcome logged; no call is sent while another is
\* unanswered.
C5_Sequential ==
    /\ \A n \in Publishes :
          LET k == io[n].k IN
          /\ Cardinality({m \in Publishes : m <= n}) = k
          /\ k \in 1..Len(files) /\ io[n].arg = files[k]
          /\ \E g \in 1..(n - 1) :
                io[g].kind = "response" /\ io[g].method = "GET" /\ io[g].ok
          /\ k > 1 =>
                \E r, l \in 1..(n - 1) :
                    /\ r < l
                    /\ io[r].kind = "response" /\ io[r].k = k - 1 /\ io[r].ok
                    /\ io[l].kind = "log" /\ io[l].k = k - 1
    /\ \A n \in 1..Len(io) :
          (IsHttp(n) /\ n < Len(io)) =>
              /\ io[n + 1].kind = "response"
              /\ io[n + 1].k = io[n].k
              /\ io[n + 1].method = io[n].method

\* a completed run of two files
C5_Witness ==
    /\ pc = "done"
    /\ Len(files) = 2
    /\ Cardinality(Publishes) = 2

\* C6: a run whose discovery yields no file has sent no HTTP call, has logged
\* the no-files message and has exited with code 0.
C6_EmptyShortCircuit ==
    ( /\ \E n \in 1..Len(io) : io[n].kind \in {"readList", "readdir"}
      /\ Len(files) = 0 )
    => /\ pc = "exited"
       /\ exitCode = 0
       /\ \A n \in 1..Len(io) : ~IsHttp(n)
       /\ io[Len(io)] = LogEv(0, "No markdown files to sync.", <<>>)

\* a run given a file list that names no Markdown file
C6_Witness ==
    /\ pc = "exited"
    /\ io[1].kind = "readList"

\* C7: a run whose credential is absent, or whose site base URL is empty
\* once one trailing slash is removed, has failed with a configuration error
\* and has done no I/O at all; no other run fails that way.
C7_ConfigFirst ==
    /\ (run > 0 /\ ConfigMissing) =>
          /\ pc = "failed"
          /\ exitCode = 1
          /\ error \in {"DEVTO_API_KEY is missing", "SITE_URL is missing"}
          /\ io = <<>>
    /\ (run > 0 /\ ~ConfigMissing) => error \in {"", "http"}

\* a run whose SITE_URL is "/"
C7_Witness ==
    /\ pc = "failed"
    /\ env.SITE_URL = Some(<<"/">>)
    /\ error = "SITE_URL is missing"

\* C8: an update is addressed to the last article of the fetched inventory
\* that carries the file's canonical URL, never to an earlier one.
C8_LastWriteWins ==
    \A n \in Publishes :
        \A m \in 1..Len(myArticles) :
            myArticles[m].canonical_url = Str(io[n].payload.canonical_url) =>
                /\ io[n].method = "PUT"
                /\ ( io[n].id = myArticles[m].id
                     <=> \A l \in (m + 1)..Len(myArticles) :
                            myArticles[l].canonical_url # myArticles[m].canonical_url )

\* an update of a file whose canonical URL two fetched articles carry
C8_Witness ==
    \E n \in Publishes :
        /\ io[n].method = "PUT"
        /\ Cardinality({m \in 1..Len(myArticles) :
              myArticles[m].canonical_url = Str(io[n].payload.canonical_url)}) = 2
        /\ pc = "done"

\* C9: the run sends only GET, POST and PUT; no article is removed, and an
\* article the remote held when the run started is unchanged unless its
\* canonical URL is the canonical URL of a file the run processed.
C9_NoDeletion ==
    /\ \A n \in 1..Len(io) : IsHttp(n) => io[n].method \in {"GET", "POST", "PUT"}
    /\ Len(remote) >= Len(remote0)
    /\ \A m \in 1..Len(remote0) :
          ( \A n \in Publishes :
                remote0[m].canonical_url # Str(io[n].payload.canonical_url) )
          => remote[m] = remote0[m]

\* a completed run that rewrote one article and left the article of a
\* removed file and an article without a canonical URL as they were
C9_Witness ==
    /\ pc = "done"
    /\ \E m \in 1..Len(remote0) : remote[m] # remote0[m]
    /\ \E m \in 1..Len(remote0) :
          remote0[m].canonical_url = UrlGone /\ remote[m] = remote0[m]

\* C10: the canonical URL sent for a file is the site base URL, "/posts/" and
\* the kebab-cased segments of its path below the content root, without the
\* extension and without the segments that start with "_"; the file about
\* to be read gets the same canonical URL whatever it holds.
ExpectedUrl(p) ==
    <<"s","/","p","o","s","t","s","/">> \o
        ( IF p \in {PathAB, PathAb} THEN <<"a","-","b">>
          ELSE IF p = PathC THEN <<"c">>
          ELSE <<"/","x">> )

C10_CanonicalUrl ==
    /\ \A n \in Publishes : io[n].payload.canonical_url = ExpectedUrl(io[n].arg)
    /\ pc = "loop" =>
          \A r1, r2 \in Contents :
              BuildPayload(r1, files[i]).canonical_url
                  = BuildPayload(r2, files[i]).canonical_url

\* the file under the "_d" folder was sent twice, with different contents,
\* by a run whose SITE_URL ends with a slash
C10_Witness ==
    /\ env.SITE_URL = Some(<<"s","/">>)
    /\ \E n \in Publishes :
          /\ io[n].arg = PathC
          /\ io[n].payload.published = FALSE

-----------------------------------------------------------------------------
(* C11..C14 *)

\* the content that was read for the call sent at n: the read directly before it
ReadFor(n) == io[n - 1]

\* C11: every create and update call carries published = false when the
\* front-matter has draft: true, and published = true when draft is absent
\* or false; nothing else is sent as published.
C11_DraftMapping ==
    \A n \in Publishes :
        /\ ReadFor(n).kind = "readFile" /\ ReadFor(n).k = io[n].k
        /\ io[n].payload.published \in BOOLEAN
        /\ ReadFor(n).raw.data.draft = Bool(TRUE) => io[n].payload.published = FALSE
        /\ ReadFor(n).raw.data.draft \in {NoValue, Bool(FALSE)}
              => io[n].payload.published = TRUE

\* a completed run that updated an article from a draft and created one from
\* a file without a draft key
C11_Witness ==
    /\ pc = "done"
    /\ \E m, n \in Publishes :
          /\ io[m].method = "PUT" /\ ReadFor(m).raw.data.draft = Bool(TRUE)
          /\ io[n].method = "POST" /\ ReadFor(n).raw.data.draft = NoValue

\* C12: every call carries the first min(n, 4) of the file's n tags, in their
\* order; one string is sent as a list of that string, no tags as the empty
\* list; a file of more than 4 tags is sent like any other.
C12_TagTruncation ==
    \A n \in Publishes :
        LET t == ReadFor(n).raw.data.tags
            out == io[n].payload.tags
        IN /\ ReadFor(n).kind = "readFile" /\ ReadFor(n).k = io[n].k
           /\ Len(out) <= 4
           /\ t.t = "array" =>
                 /\ Len(out) = (IF Len(t.v) < 4 THEN Len(t.v) ELSE 4)
                 /\ \A j \in 1..Len(out) : out[j] = t.v[j]
           /\ t.t = "string" => out = <<t.v[1]>>
           /\ t.t = "undefined" => out = <<>>

\* a completed run that sent a file of more than four tags
C12_Witness ==
    /\ pc = "done"
    /\ error = ""
    /\ \E n \in Publishes :
          /\ ReadFor(n).raw.data.tags.t = "array"
          /\ Len(ReadFor(n).raw.data.tags.v) > 4
          /\ Len(io[n].payload.tags) = 4

\* the run was given a file list: --files and a value after it
ListGiven == \E n \in 1..(Len(argv) - 1) : argv[n] = FilesFlag

\* the Markdown paths a list text names, in its order, against the working directory
Listed(text) ==
    IF text = TextPosts THEN <<PathAB, PathAb>>
    ELSE IF text = TextOutside THEN <<PathX, PathC>>
    ELSE <<>>

\* C13: a run given a file list enumerates no directory; its files are the
\* listed Markdown paths in listed order, every content file it reads and
\* every call it sends is for the listed path of that position, and when it
\* completes it has sent one call per listed Markdown path.
C13_ListOverridesScan ==
    ListGiven =>
        /\ \A n \in 1..Len(io) : io[n].kind # "readdir"
        /\ io # <<>> =>
              LET listed == Listed(io[1].text) IN
              /\ io[1].kind = "readList"
              /\ files = listed
              /\ \A n \in 1..Len(io) :
                    (io[n].kind = "readFile" \/ IsPublish(n)) =>
                        /\ io[n].k \in 1..Len(listed)
                        /\ io[n].arg = listed[io[n].k]
              /\ pc = "done" =>
                    \A k \in 1..Len(listed) : Cardinality(RequestsOf(k)) = 1

\* a completed run of a list that names a file outside the content root, a
\* file below it and nothing else
C13_Witness ==
    /\ pc = "done"
    /\ ListGiven
    /\ io[1].text = TextOutside
    /\ Cardinality(Publishes) = 2

\* C14: stripBase removes a non-empty base path only from a pathname that
\* equals it or begins with it followed by "/"; every other pathname, and
\* every pathname under an empty base path, is returned unchanged.
C14_StripBaseBoundary ==
    call.fn = "stripBase" =>
        IF /\ basePath # <<>>
           /\ \/ call.arg = basePath
              \/ startsWith(call.arg, basePath \o <<"/">>)
        THEN call.out = SubSeq(call.arg, Len(basePath) + 1, Len(call.arg))
        ELSE call.out = call.arg

====
